---- MODULE Spec2Model ----
(***************************************************************************)
(* The dispatch-and-background-execution engine of mcp_router              *)
(* (src/src/mcp_router/mcp_engine.py, class MCPEngine), run by             *)
(* run_mcp_router (src/src/mcp_router/__init__.py).                        *)
(*                                                                         *)
(* Everything runs on one asyncio event loop: a coroutine runs without     *)
(* interruption from one await to the next, so each action below is the    *)
(* code between two suspension points.  A backend session is opaque: what  *)
(* it answers is drawn from small sets.                                    *)
(***************************************************************************)
EXTENDS Integers, Sequences, FiniteSets, TLC

VARIABLES
    pc,                          \* where run_mcp_router is
    i,                           \* start_all_mcp_servers: index of the next descriptor
    hmap_mcp_server_to_session,  \* the registry: backend name -> session
    mcp_info,                    \* start_all_mcp_servers: the summary entries so far
    stack_handler,               \* the AsyncExitStack owning the sessions: "open" | "closed"
    hmap_call_id_to_results,     \* the task table: tool_call_id -> BackgroundToolCallResult
    background_tasks,            \* the tracked list of asyncio tasks (by tool_call_id)
    tasks,                       \* the asyncio tasks created so far: tool_call_id -> task state
    uuid,                        \* how many uuid4 values were drawn
    call,                        \* the mcp_router call that has just run, if any
    reply                        \* what that call returned or raised

vars == <<pc, i, hmap_mcp_server_to_session, mcp_info, stack_handler,
          hmap_call_id_to_results, background_tasks, tasks, uuid, call, reply>>

engine == <<pc, i, hmap_mcp_server_to_session, mcp_info, stack_handler>>

---------------------------------------------------------------------------
(* Bounds and inputs *)

\* How many background invocations are spawned in one run.
MaxTasks == 2

\* The same, in the runs checked under the event loop's scheduling.
MaxLiveTasks == 1

\* mcp_router(..., timeout: float = 60)
DefaultTimeout == 60

\* The configured descriptors (MCPRouterConfig.mcpServers), names unique.
mcpServers == <<"alpha", "beta">>

\* A server_name that no descriptor has.
ServerNames == {mcpServers[k] : k \in 1..Len(mcpServers)} \cup {"ghost"}

\* Optional[...] = None
None == "None"

Actions ==
    {"list_tools", "get_description", "get_tool_schema", "execute_tool",
     "spawn_tool_in_background", "poll_tool_result"}

ActionInputs == Actions \cup {"bogus"}

\* tool_arguments as passed: absent, well-formed JSON text, malformed JSON text.
WellFormed == "{\"x\": 1}"
Malformed == "{\"x\": "
ArgTexts == {None, WellFormed, Malformed}

ToolNames == {"echo", "nosuch"}

Timeouts == {5, DefaultTimeout}

TaskIds == 1..MaxTasks

\* tool_call_id as passed: 0 is an id that spawn never returned (or None).
TaskIdInputs == 0..MaxTasks

---------------------------------------------------------------------------
(* Data types (types.py) *)

PENDING == "PENDING"
COMPLETED == "COMPLETED"
FAILED == "FAILED"
TIMEOUT == "TIMEOUT"

BackgroundToolCallStatus == {PENDING, COMPLETED, FAILED, TIMEOUT}

\* BackgroundToolCallResult(status, error_message=None, results=None); an
\* Optional field is a sequence of length at most one (<<>> is None).
BackgroundToolCallResult(status, error_message, results) ==
    [status |-> status, error_message |-> error_message, results |-> results]

\* f"{status}" of a (str, Enum) member: the class and member name.
FormatStatus(status) == "BackgroundToolCallStatus." \o status

TextBlock(text) == [type |-> "text", text |-> text]

---------------------------------------------------------------------------
(* The backend behind a session (opaque; its answers are inputs) *)

\* A content block as session.call_tool returns it (content.model_dump()).
RawBlock(text, annotations, meta) ==
    [type |-> "text", text |-> text, annotations |-> annotations, meta |-> meta]

\* CallToolResult: content and the isError flag.
CallToolResults ==
    { [kind |-> "return", isError |-> FALSE,
       content |-> <<RawBlock("pong", "audience", "m1"), RawBlock("more", None, None)>>],
      [kind |-> "return", isError |-> TRUE,
       content |-> <<RawBlock("tool error", None, None)>>] }

\* What awaiting session.call_tool can end with besides a result: an
\* exception (asyncio.TimeoutError is the builtin TimeoutError).
CallToolRaises ==
    { [kind |-> "raise", exc |-> "Exception", msg |-> "boom"],
      [kind |-> "raise", exc |-> "TimeoutError", msg |-> "read timed out"] }

InvokeOutcomes == CallToolResults \cup CallToolRaises

\* session.list_tools(): the backend's tools (name, description, inputSchema).
ListToolsResult(session) ==
    << [name |-> "echo", description |-> "echo of " \o session,
        inputSchema |-> "schema of echo@" \o session] >>

\* What session.list_tools() can answer at a later call: the same tools, or
\* a set that changed since (echo redescribed and nosuch added; echo removed).
ListToolsResults(session) ==
    { ListToolsResult(session),
      << [name |-> "echo", description |-> "echo v2 of " \o session,
          inputSchema |-> "schema v2 of echo@" \o session],
         [name |-> "nosuch", description |-> "nosuch of " \o session,
          inputSchema |-> "schema of nosuch@" \o session] >>,
      << [name |-> "nosuch", description |-> "nosuch of " \o session,
          inputSchema |-> "schema of nosuch@" \o session] >> }

\* The answer of a list_tools() query, as a step records it.
Listed(result) == [kind |-> "tools", tools |-> result]

---------------------------------------------------------------------------
(* Pure helpers *)

\* json.loads(tool_arguments): the parsed value, or a JSONDecodeError.
json_loads(text) ==
    CASE text = WellFormed -> [ok |-> TRUE, value |-> [x |-> 1]]
      [] OTHER -> [ok |-> FALSE, value |-> None]

\* run_tool that returns the blocks as the session gave them.
run_tool_raw(tool_call_result) == tool_call_result.content

\* run_tool, lines 110-116: every block of the result without its
\* "annotations" and "meta" keys.  The isError flag is not read.
run_tool(tool_call_result) ==
    [k \in 1..Len(tool_call_result.content) |->
        [f \in (DOMAIN tool_call_result.content[k]) \ {"annotations", "meta"} |->
            tool_call_result.content[k][f]]]

\* f"Tool execution exceeded timeout of {timeout} seconds."
TimeoutMessage(timeout) ==
    "Tool execution exceeded timeout of " \o ToString(timeout) \o " seconds."

\* An asyncio task that has finished, normally or by cancellation.
done(id) == tasks[id].st \in {"done", "cancelled"}

---------------------------------------------------------------------------
(* Init: MCPEngine() constructed and entered (__init__, __aenter__) *)

\* No mcp_router call has just run.
NoCall == [action |-> None]

NoReply == [raised |-> None]

Init ==
    /\ pc = "start_all_mcp_servers"
    /\ i = 1
    /\ hmap_mcp_server_to_session = <<>>
    /\ mcp_info = <<>>
    /\ stack_handler = "open"
    /\ hmap_call_id_to_results = <<>>
    /\ background_tasks = <<>>
    /\ tasks = <<>>
    /\ uuid = 0
    /\ call = NoCall
    /\ reply = NoReply

---------------------------------------------------------------------------
(* Startup: start_all_mcp_servers, one loop iteration per step *)

\* yaml.dump({"name": ..., "description": ..., "number_of_tools": ...},
\* sort_keys=False), lines 100-104.
yaml_dump(name, number_of_tools) ==
    "name: " \o name \o "\ndescription: backend " \o name
        \o "\nnumber_of_tools: " \o ToString(number_of_tools) \o "\n"

\* sep.join(texts)
RECURSIVE join(_, _)
join(sep, entries) ==
    IF Len(entries) = 1
    THEN yaml_dump(entries[1].name, entries[1].number_of_tools)
    ELSE yaml_dump(entries[1].name, entries[1].number_of_tools) \o sep
            \o join(sep, Tail(entries))

\* start_mcp_server returns the session, or None after a timeout or an error.
start_mcp_server_outcomes == {"session", "timeout", "error"}

\* What one iteration of the loop of start_all_mcp_servers did: how
\* start_mcp_server ended for the descriptor, and whether the iteration
\* raised (raised = None: the loop goes on).
Started(name, started, raised) ==
    [call |-> [action |-> "start_mcp_server", server_name |-> name],
     reply |-> [raised |-> raised, started |-> started]]

\* A loop that registers whatever start_mcp_server returned.
start_all_mcp_servers_unchecked ==
    /\ pc = "start_all_mcp_servers"
    /\ call = NoCall
    /\ i <= Len(mcpServers)
    /\ \E started \in start_mcp_server_outcomes :
        LET name == mcpServers[i] IN
        /\ hmap_mcp_server_to_session' =
                [n \in (DOMAIN hmap_mcp_server_to_session) \cup {name} |->
                    IF n = name THEN name ELSE hmap_mcp_server_to_session[n]]
        /\ mcp_info' = Append(mcp_info, [name |-> name, number_of_tools |-> Len(ListToolsResult(name))])
        /\ i' = i + 1
        /\ pc' = pc
        /\ call' = Started(name, started, None).call
        /\ reply' = Started(name, started, None).reply
    /\ UNCHANGED <<stack_handler, hmap_call_id_to_results, background_tasks, tasks, uuid>>

\* Lines 93-104: one iteration of the loop.
start_all_mcp_servers ==
    /\ pc = "start_all_mcp_servers"
    /\ call = NoCall
    /\ i <= Len(mcpServers)
    /\ \E started \in start_mcp_server_outcomes, listed \in BOOLEAN :
        LET name == mcpServers[i] IN
        IF started # "session"
        THEN \* line 96-98: logged and skipped
             /\ i' = i + 1
             /\ call' = Started(name, started, None).call
             /\ reply' = Started(name, started, None).reply
             /\ UNCHANGED <<pc, hmap_mcp_server_to_session, mcp_info>>
        ELSE \* line 99, then the summary line with a second list_tools() (line 103)
             /\ hmap_mcp_server_to_session' =
                    [n \in (DOMAIN hmap_mcp_server_to_session) \cup {name} |->
                        IF n = name THEN name ELSE hmap_mcp_server_to_session[n]]
             /\ call' = Started(name, started, None).call
             /\ IF listed
                THEN /\ mcp_info' = Append(mcp_info,
                            [name |-> name, number_of_tools |-> Len(ListToolsResult(name))])
                     /\ i' = i + 1
                     /\ pc' = pc
                     /\ reply' = Started(name, started, None).reply
                ELSE \* list_tools() raised: the exception leaves the async with block
                     /\ pc' = "aexit"
                     /\ reply' = Started(name, started, "BackendError").reply
                     /\ UNCHANGED <<mcp_info, i>>
    /\ UNCHANGED <<stack_handler, hmap_call_id_to_results, background_tasks, tasks, uuid>>

\* The summary start_all_mcp_servers returns (line 106).
description ==
    IF mcp_info # <<>> THEN join("\n###\n", mcp_info)
    ELSE "No MCP servers started successfully."

\* The transport start_engine is called with.
Transports == {"stdio", "http", "bogus"}

\* What a step of start_engine did: the transport it was called with, the
\* exception it raised, the run_async call it is in.
Engine(transport, raised, line) ==
    [call |-> [action |-> "start_engine", transport |-> transport],
     reply |-> [raised |-> raised, line |-> line]]

\* define_tools and start_engine (lines 59-64): the transport is checked,
\* then the hosting server loop starts serving calls, for http in the
\* run_async of line 63, otherwise in the run_async of line 64.
start_engine ==
    /\ call = NoCall
    /\ pc = "start_all_mcp_servers"
    /\ i > Len(mcpServers)
    /\ \E transport \in Transports :
        /\ pc' = CASE transport \notin {"http", "stdio"} -> "aexit"
                   [] transport = "http" -> "start_engine_http"
                   [] OTHER -> "start_engine"
        /\ call' = Engine(transport, None, 0).call
        /\ reply' = CASE transport \notin {"http", "stdio"} ->
                            Engine(transport, "ValueError", 0).reply
                      [] transport = "http" -> Engine(transport, None, 63).reply
                      [] OTHER -> Engine(transport, None, 64).reply
    /\ UNCHANGED <<i, hmap_mcp_server_to_session, mcp_info, stack_handler,
                   hmap_call_id_to_results, background_tasks, tasks, uuid>>

\* Line 63 to line 64: the http server loop has returned; there is no
\* return after it, so run_async is called again.
run_async_returns ==
    /\ call = NoCall
    /\ pc = "start_engine_http"
    /\ pc' = "start_engine"
    /\ call' = Engine("http", None, 64).call
    /\ reply' = Engine("http", None, 64).reply
    /\ UNCHANGED <<i, hmap_mcp_server_to_session, mcp_info, stack_handler,
                   hmap_call_id_to_results, background_tasks, tasks, uuid>>

---------------------------------------------------------------------------
(* What the step that has just run did (kept until call_returns) *)

NoOutcome == [kind |-> None]

\* An mcp_router call as the hosting loop passes it.
CallOf(server_name, action, tool_name, tool_arguments, tool_call_id, timeout) ==
    [server_name |-> server_name, action |-> action, tool_name |-> tool_name,
     tool_arguments |-> tool_arguments, tool_call_id |-> tool_call_id,
     timeout |-> timeout]

\* What the caller gets: a list of blocks, or an exception.  lookup: the
\* registry was indexed; contacted: a session method was awaited; outcome:
\* what session.call_tool ended with, when it was awaited.
Returned(ret, contacted, outcome) ==
    [raised |-> None, ret |-> ret, lookup |-> TRUE, contacted |-> contacted,
     outcome |-> outcome]

Raised(exception, lookup, contacted, outcome) ==
    [raised |-> exception, ret |-> <<>>, lookup |-> lookup, contacted |-> contacted,
     outcome |-> outcome]

---------------------------------------------------------------------------
(* A background unit: the asyncio task running background_tool_execution *)

\* asyncio.create_task(self.background_tool_execution(...)): scheduled, not started.
create_task(session, timeout) ==
    [st |-> "created", session |-> session, timeout |-> timeout,
     expired |-> FALSE, cancels |-> 0]

\* A finished task: its coroutine, with the arguments it held, is gone.
finished(st) ==
    [st |-> st, session |-> None, timeout |-> 0, expired |-> FALSE, cancels |-> 0]

\* task.cancel() as __aexit__ calls it: a request, delivered when the task next runs.
cancel(t) ==
    IF t.st \in {"done", "cancelled"} THEN t ELSE [t EXCEPT !.cancels = @ + 1]

\* A timer that never fires.
timeout_never(id) ==
    /\ FALSE
    /\ UNCHANGED vars

\* Line 120: the deadline of asyncio.timeout(delay=timeout) passes while the
\* task is suspended in run_tool; the timeout cancels the task (the request
\* is delivered when the task next runs).
timeout_expires(id) ==
    /\ call = NoCall
    /\ id \in DOMAIN tasks
    /\ tasks[id].st = "awaiting"
    /\ ~tasks[id].expired
    /\ tasks' = [tasks EXCEPT ![id].expired = TRUE]
    /\ UNCHANGED <<engine, hmap_call_id_to_results, background_tasks, uuid, call, reply>>

\* self.hmap_call_id_to_results[tool_call_id] = result
store(tool_call_id, result) ==
    hmap_call_id_to_results' =
        [k \in (DOMAIN hmap_call_id_to_results) \cup {tool_call_id} |->
            IF k = tool_call_id THEN result ELSE hmap_call_id_to_results[k]]

\* A timeout that is caught and not recorded.
write_timeout_skipped(tool_call_id, timeout) ==
    UNCHANGED hmap_call_id_to_results

\* A timeout message that names the default duration, not the call's.
write_timeout_default(tool_call_id, timeout) ==
    store(tool_call_id,
          BackgroundToolCallResult(TIMEOUT, <<TimeoutMessage(DefaultTimeout)>>, <<>>))

\* The three terminal writes of background_tool_execution.
\* Lines 122-125.
write_completed(tool_call_id, tool_results) ==
    store(tool_call_id, BackgroundToolCallResult(COMPLETED, <<>>, <<tool_results>>))

\* Lines 127-131.
write_timeout(tool_call_id, timeout) ==
    store(tool_call_id, BackgroundToolCallResult(TIMEOUT, <<TimeoutMessage(timeout)>>, <<>>))

\* Lines 134-138: error_message=str(e).
write_failed(tool_call_id, e) ==
    store(tool_call_id, BackgroundToolCallResult(FAILED, <<e.msg>>, <<>>))

\* The awaited session.call_tool ended by the CancelledError thrown into it.
Cancelled == [kind |-> "cancelled"]

\* A unit that records its cancellation as a failure.
on_cancelled_failed(tool_call_id) ==
    store(tool_call_id, BackgroundToolCallResult(FAILED, <<"">>, <<>>))

\* CancelledError is no Exception: it passes both except clauses (lines 126
\* and 132) and nothing is written.
on_cancelled(tool_call_id) ==
    UNCHANGED hmap_call_id_to_results

\* How the try statement of lines 119-138 handles what the awaited
\* run_tool ended with.
handle(tool_call_id, timeout, out) ==
    CASE out.kind = "return" -> write_completed(tool_call_id, run_tool(out))
      [] out.kind = "raise" /\ out.exc = "TimeoutError" ->
            write_timeout(tool_call_id, timeout)
      [] OTHER -> write_failed(tool_call_id, out)

\* One resumption of the task of tool_call_id id (lines 118-138).
background_tool_execution(id) ==
    /\ call = NoCall
    /\ id \in DOMAIN tasks
    /\ ~done(id)
    /\ call' = CallOf(tasks[id].session, "background_tool_execution", None, None,
                      id, tasks[id].timeout)
    /\ LET t == tasks[id] IN
       IF t.st = "created"
       THEN IF t.cancels > 0
            THEN \* cancelled before its first step: the body never runs
                 /\ tasks' = [tasks EXCEPT ![id] = finished("cancelled")]
                 /\ reply' = Raised("CancelledError", FALSE, FALSE, NoOutcome)
                 /\ UNCHANGED hmap_call_id_to_results
            ELSE \* enters asyncio.timeout and suspends in session.call_tool
                 /\ tasks' = [tasks EXCEPT ![id].st = "awaiting"]
                 /\ reply' = Returned(<<>>, TRUE, NoOutcome)
                 /\ UNCHANGED hmap_call_id_to_results
       ELSE IF t.expired \/ t.cancels > 0
            THEN \* CancelledError is thrown into the await
                 IF t.expired /\ t.cancels = 0
                 THEN \* only the timeout cancelled: asyncio.timeout raises
                      \* TimeoutError, caught at line 126
                      /\ write_timeout(id, t.timeout)
                      /\ tasks' = [tasks EXCEPT ![id] = finished("done")]
                      /\ reply' = Raised("TimeoutError", FALSE, FALSE, NoOutcome)
                 ELSE \* __aexit__ asked too: CancelledError leaves the coroutine
                      /\ tasks' = [tasks EXCEPT ![id] = finished("cancelled")]
                      /\ reply' = Raised("CancelledError", FALSE, FALSE, Cancelled)
                      /\ on_cancelled(id)
            ELSE \* session.call_tool has ended
                 \E out \in InvokeOutcomes :
                    /\ handle(id, t.timeout, out)
                    /\ tasks' = [tasks EXCEPT ![id] = finished("done")]
                    /\ reply' = IF out.kind = "return"
                                THEN Returned(<<>>, FALSE, out)
                                ELSE Raised(out.exc, FALSE, FALSE, out)
    /\ UNCHANGED <<engine, background_tasks, uuid>>

---------------------------------------------------------------------------
(* Shutdown: __aexit__ *)

\* Lines 38-43 up to the await: the server loop has ended (or startup
\* raised); every tracked task is asked to cancel.
aexit_cancel ==
    /\ call = NoCall
    /\ pc \in {"start_engine", "start_engine_http", "aexit"}
    /\ tasks' = [id \in DOMAIN tasks |->
                    IF \E k \in 1..Len(background_tasks) : background_tasks[k] = id
                    THEN cancel(tasks[id]) ELSE tasks[id]]
    /\ pc' = "gather"
    /\ UNCHANGED <<i, hmap_mcp_server_to_session, mcp_info, stack_handler,
                   hmap_call_id_to_results, background_tasks, uuid, call, reply>>

\* A shutdown that closes the sessions without waiting for the tasks.
aexit_close_nowait ==
    /\ call = NoCall
    /\ pc = "gather"
    /\ stack_handler' = "closed"
    /\ pc' = "exited"
    /\ UNCHANGED <<i, hmap_mcp_server_to_session, mcp_info,
                   hmap_call_id_to_results, background_tasks, tasks, uuid, call, reply>>

\* Lines 43-44: gather returns once every tracked task is done; then the
\* exit stack closes the sessions.
aexit_close ==
    /\ call = NoCall
    /\ pc = "gather"
    /\ \A k \in 1..Len(background_tasks) : done(background_tasks[k])
    /\ stack_handler' = "closed"
    /\ pc' = "exited"
    /\ UNCHANGED <<i, hmap_mcp_server_to_session, mcp_info,
                   hmap_call_id_to_results, background_tasks, tasks, uuid, call, reply>>

---------------------------------------------------------------------------
(* The dispatcher: mcp_router (lines 140-235) *)

table == <<hmap_call_id_to_results, background_tasks, tasks, uuid>>

\* The exceptions the validation raises: ValueError (line 151),
\* json.JSONDecodeError (line 154), KeyError (lines 156, 172, 184, 218).
ValidationErrors ==
    {"UnsupportedAction", "InvalidArguments", "UnknownBackend",
     "UnknownCapability", "UnknownTaskId"}

\* Lines 161-164: the two fixed guidance blocks.
remainder ==
    << TextBlock("Do not make assumptions about tool schema, if you have found a tool you want to use, call get_tool_schema action to get its schema. This is important to avoid malformed requests."),
       TextBlock("Only use get_description action if you are unsure about what a tool does based on its name.") >>

\* Lines 158-165.
list_tools(session) ==
    /\ \/ reply' = Raised("BackendError", TRUE, TRUE, NoOutcome)
       \/ \E result \in ListToolsResults(session) :
            reply' = Returned([k \in 1..Len(result) |->
                                  TextBlock("tool_name: " \o result[k].name)]
                              \o remainder, TRUE, Listed(result))
    /\ UNCHANGED table

\* {tool.name: tool.<field> for tool in result.tools}[tool_name], or a KeyError.
HasTool(result, tool_name) ==
    \E k \in 1..Len(result) : result[k].name = tool_name

ToolOf(result, tool_name) ==
    result[CHOOSE k \in 1..Len(result) :
              /\ result[k].name = tool_name
              /\ \A j \in (k + 1)..Len(result) : result[j].name # tool_name]

\* A describe that answers from the tools the backend had at startup.
get_description_cached(session, tool_name) ==
    /\ \/ reply' = Raised("BackendError", TRUE, TRUE, NoOutcome)
       \/ \E result \in ListToolsResults(session) :
            reply' = IF ~HasTool(ListToolsResult(session), tool_name)
                     THEN Raised("UnknownCapability", TRUE, TRUE, Listed(result))
                     ELSE Returned(
                            <<TextBlock(ToolOf(ListToolsResult(session), tool_name).description)>>,
                            TRUE, Listed(result))
    /\ UNCHANGED table

\* Lines 166-174.
get_description(session, tool_name) ==
    /\ \/ reply' = Raised("BackendError", TRUE, TRUE, NoOutcome)
       \/ \E result \in ListToolsResults(session) :
            reply' = IF ~HasTool(result, tool_name)
                     THEN Raised("UnknownCapability", TRUE, TRUE, Listed(result))
                     ELSE Returned(<<TextBlock(ToolOf(result, tool_name).description)>>,
                                   TRUE, Listed(result))
    /\ UNCHANGED table

\* Lines 175-187: yaml.dump of name, hint and input schema.
get_tool_schema(session, tool_name) ==
    /\ \/ reply' = Raised("BackendError", TRUE, TRUE, NoOutcome)
       \/ \E result \in ListToolsResults(session) :
            reply' = IF ~HasTool(result, tool_name)
                     THEN Raised("UnknownCapability", TRUE, TRUE, Listed(result))
                     ELSE Returned(
                            <<TextBlock("name: " \o tool_name
                                \o "\ndescription: if you feel confused, use get_description action to get the tool description"
                                \o "\ninput_schema: "
                                \o ToolOf(result, tool_name).inputSchema)>>,
                            TRUE, Listed(result))
    /\ UNCHANGED table

\* An execute that also leaves its result in the task table.
execute_tool_recorded(session) ==
    /\ \E out \in InvokeOutcomes :
        /\ reply' = IF out.kind = "return"
                    THEN Returned(run_tool(out), TRUE, out)
                    ELSE Raised("BackendError", TRUE, TRUE, out)
        /\ IF out.kind = "return"
           THEN store(1, BackgroundToolCallResult(COMPLETED, <<>>, <<run_tool(out)>>))
           ELSE UNCHANGED hmap_call_id_to_results
    /\ UNCHANGED <<background_tasks, tasks, uuid>>

\* Lines 188-190: awaited inline, no timeout; an exception of the session
\* is the call's error.
execute_tool(session) ==
    /\ \E out \in InvokeOutcomes :
        reply' = IF out.kind = "return"
                 THEN Returned(run_tool(out), TRUE, out)
                 ELSE Raised("BackendError", TRUE, TRUE, out)
    /\ UNCHANGED table

\* An id generator that repeats itself.
uuid4_repeated == IF uuid = 0 THEN 1 ELSE uuid

\* str(uuid4()): a value never drawn before.
uuid4 == uuid + 1

\* A spawn that awaits the invocation before it inserts the PENDING record:
\* the record the unit wrote is overwritten.
spawn_tool_in_background_awaited(session, timeout) ==
    /\ uuid < MaxTasks
    /\ LET tool_call_id == uuid4 IN
        /\ uuid' = uuid + 1
        /\ tasks' = [k \in (DOMAIN tasks) \cup {tool_call_id} |->
                        IF k = tool_call_id THEN finished("done") ELSE tasks[k]]
        /\ store(tool_call_id, BackgroundToolCallResult(PENDING, <<>>, <<>>))
        /\ background_tasks' = Append(background_tasks, tool_call_id)
        /\ \E out \in InvokeOutcomes :
            reply' = Returned(
                << TextBlock("tool_call_id: " \o ToString(tool_call_id)),
                   TextBlock("Use poll_tool_result action with the tool_call_id to check the status and retrieve results.") >>,
                TRUE, out)

\* Lines 191-216: no await between create_task and the return.
spawn_tool_in_background(session, timeout) ==
    /\ uuid < MaxTasks
    /\ LET tool_call_id == uuid4 IN
        /\ uuid' = uuid + 1
        /\ tasks' = [k \in (DOMAIN tasks) \cup {tool_call_id} |->
                        IF k = tool_call_id THEN create_task(session, timeout)
                        ELSE tasks[k]]
        /\ store(tool_call_id, BackgroundToolCallResult(PENDING, <<>>, <<>>))
        /\ background_tasks' = Append(background_tasks, tool_call_id)
        /\ reply' = Returned(
                << TextBlock("tool_call_id: " \o ToString(tool_call_id)),
                   TextBlock("Use poll_tool_result action with the tool_call_id to check the status and retrieve results.") >>,
                FALSE, NoOutcome)

\* The in-progress notice (line 225) and the status+error block (line 233).
InProgress(result) ==
    <<TextBlock("Status: " \o FormatStatus(result.status)
        \o ". The tool execution is still in progress. Please check back later.")>>

StatusAndError(result) ==
    <<TextBlock("Status: " \o FormatStatus(result.status) \o ". Error Message: "
        \o (IF result.error_message = <<>> THEN None ELSE result.error_message[1]))>>

\* A poll that returns a terminal record without deleting it.
poll_tool_result_keep(tool_call_id) ==
    IF tool_call_id \notin DOMAIN hmap_call_id_to_results
    THEN /\ reply' = Raised("UnknownTaskId", TRUE, FALSE, NoOutcome)
         /\ UNCHANGED table
    ELSE LET result == hmap_call_id_to_results[tool_call_id] IN
         /\ reply' = Returned(IF result.status = PENDING THEN InProgress(result)
                              ELSE IF result.status = COMPLETED THEN result.results[1]
                              ELSE StatusAndError(result),
                              FALSE, NoOutcome)
         /\ UNCHANGED table

\* A poll that returns a COMPLETED record and leaves its removal to a later
\* step: the record is still in the table for the next poll.
poll_tool_result_suspended(tool_call_id) ==
    IF tool_call_id \notin DOMAIN hmap_call_id_to_results
    THEN /\ reply' = Raised("UnknownTaskId", TRUE, FALSE, NoOutcome)
         /\ UNCHANGED table
    ELSE LET result == hmap_call_id_to_results[tool_call_id] IN
         /\ hmap_call_id_to_results' =
                IF result.status \in {FAILED, TIMEOUT}
                THEN [k \in (DOMAIN hmap_call_id_to_results) \ {tool_call_id} |->
                        hmap_call_id_to_results[k]]
                ELSE hmap_call_id_to_results
         /\ reply' = Returned(IF result.status = PENDING THEN InProgress(result)
                              ELSE IF result.status = COMPLETED THEN result.results[1]
                              ELSE StatusAndError(result),
                              FALSE, NoOutcome)
         /\ UNCHANGED <<background_tasks, tasks, uuid>>

\* Lines 217-235.
poll_tool_result(tool_call_id) ==
    IF tool_call_id \notin DOMAIN hmap_call_id_to_results
    THEN /\ reply' = Raised("UnknownTaskId", TRUE, FALSE, NoOutcome)
         /\ UNCHANGED table
    ELSE LET result == hmap_call_id_to_results[tool_call_id] IN
         /\ hmap_call_id_to_results' =
                IF result.status # PENDING
                THEN [k \in (DOMAIN hmap_call_id_to_results) \ {tool_call_id} |->
                        hmap_call_id_to_results[k]]
                ELSE hmap_call_id_to_results
         /\ reply' = Returned(IF result.status = PENDING THEN InProgress(result)
                              ELSE IF result.status = COMPLETED THEN result.results[1]
                              ELSE StatusAndError(result),
                              FALSE, NoOutcome)
         /\ UNCHANGED <<background_tasks, tasks, uuid>>

\* The checks with the arguments parsed before the action is looked at.
validation_parse_first(server_name, action, tool_arguments) ==
    IF tool_arguments # None /\ ~json_loads(tool_arguments).ok THEN "InvalidArguments"
    ELSE IF action \notin Actions THEN "UnsupportedAction"
    ELSE IF server_name \notin DOMAIN hmap_mcp_server_to_session THEN "UnknownBackend"
    ELSE None

\* The checks with the registry indexed before the arguments are parsed.
validation_lookup_first(server_name, action, tool_arguments) ==
    IF action \notin Actions THEN "UnsupportedAction"
    ELSE IF server_name \notin DOMAIN hmap_mcp_server_to_session THEN "UnknownBackend"
    ELSE IF tool_arguments # None /\ ~json_loads(tool_arguments).ok THEN "InvalidArguments"
    ELSE None

\* Lines 150-156: the exception the checks before the match raise, if any,
\* in the order the code makes them.
validation(server_name, action, tool_arguments) ==
    IF action \notin Actions THEN "UnsupportedAction"
    ELSE IF tool_arguments # None /\ ~json_loads(tool_arguments).ok THEN "InvalidArguments"
    ELSE IF server_name \notin DOMAIN hmap_mcp_server_to_session THEN "UnknownBackend"
    ELSE None

\* A match whose poll sees only the invocations spawned on its own backend.
dispatch_scoped(session, action, tool_name, tool_call_id, timeout) ==
    CASE action = "list_tools" -> list_tools(session)
      [] action = "get_description" -> get_description(session, tool_name)
      [] action = "get_tool_schema" -> get_tool_schema(session, tool_name)
      [] action = "execute_tool" -> execute_tool(session)
      [] action = "spawn_tool_in_background" -> spawn_tool_in_background(session, timeout)
      [] action = "poll_tool_result" ->
            IF /\ tool_call_id \in DOMAIN tasks
               /\ tasks[tool_call_id].session \notin {session, None}
            THEN /\ reply' = Raised("UnknownTaskId", TRUE, FALSE, NoOutcome)
                 /\ UNCHANGED table
            ELSE poll_tool_result(tool_call_id)

\* Lines 157-235: the match on the action, with the session looked up.
dispatch(session, action, tool_name, tool_call_id, timeout) ==
    CASE action = "list_tools" -> list_tools(session)
      [] action = "get_description" -> get_description(session, tool_name)
      [] action = "get_tool_schema" -> get_tool_schema(session, tool_name)
      [] action = "execute_tool" -> execute_tool(session)
      [] action = "spawn_tool_in_background" -> spawn_tool_in_background(session, timeout)
      [] action = "poll_tool_result" -> poll_tool_result(tool_call_id)

\* A dispatcher that parses tool_arguments only where they are used, after
\* spawn has created its task.
mcp_router_late_parse(server_name, action, tool_name, tool_arguments, tool_call_id, timeout) ==
    /\ IF validation(server_name, action, None) # None
       THEN /\ reply' = Raised(validation(server_name, action, None),
                               validation(server_name, action, None) = "UnknownBackend",
                               FALSE, NoOutcome)
            /\ UNCHANGED table
       ELSE IF tool_arguments # None /\ ~json_loads(tool_arguments).ok
       THEN /\ reply' = Raised("InvalidArguments", TRUE, FALSE, NoOutcome)
            /\ IF action = "spawn_tool_in_background" /\ uuid < MaxTasks
               THEN /\ uuid' = uuid + 1
                    /\ tasks' = [k \in (DOMAIN tasks) \cup {uuid4} |->
                                    IF k = uuid4
                                    THEN create_task(hmap_mcp_server_to_session[server_name],
                                                     timeout)
                                    ELSE tasks[k]]
                    /\ store(uuid4, BackgroundToolCallResult(PENDING, <<>>, <<>>))
                    /\ background_tasks' = Append(background_tasks, uuid4)
               ELSE UNCHANGED table
       ELSE dispatch(hmap_mcp_server_to_session[server_name], action, tool_name,
                     tool_call_id, timeout)
    /\ call' = CallOf(server_name, action, tool_name, tool_arguments, tool_call_id, timeout)
    /\ UNCHANGED engine

mcp_router(server_name, action, tool_name, tool_arguments, tool_call_id, timeout) ==
    /\ IF validation(server_name, action, tool_arguments) # None
       THEN /\ reply' = Raised(validation(server_name, action, tool_arguments),
                               validation(server_name, action, tool_arguments) = "UnknownBackend",
                               FALSE, NoOutcome)
            /\ UNCHANGED table
       ELSE dispatch(hmap_mcp_server_to_session[server_name], action, tool_name,
                     tool_call_id, timeout)
    /\ call' = CallOf(server_name, action, tool_name, tool_arguments, tool_call_id, timeout)
    /\ UNCHANGED engine

---------------------------------------------------------------------------
(* The calls the hosting server loop hands to mcp_router while it runs *)

\* The parameters an action never reads keep their default, and a spawn
\* passes a timeout of its own; tool_arguments
\* is absent or malformed where it is optional, well-formed or malformed
\* where the action needs it.
Calls ==
    { c \in [server_name : ServerNames, action : ActionInputs,
             tool_name : ToolNames \cup {None}, tool_arguments : ArgTexts,
             tool_call_id : TaskIdInputs, timeout : Timeouts] :
        /\ c.action \notin {"poll_tool_result", "bogus"} => c.tool_call_id = 0
        /\ c.timeout = IF c.action = "spawn_tool_in_background" THEN 5 ELSE DefaultTimeout
        /\ CASE c.action \in {"get_description", "get_tool_schema"} -> c.tool_name # None
             [] c.action \in {"execute_tool", "spawn_tool_in_background"} ->
                    c.tool_name = "echo"
             [] OTHER -> c.tool_name = None
        /\ IF c.action \in {"execute_tool", "spawn_tool_in_background"}
           THEN c.tool_arguments # None ELSE c.tool_arguments # WellFormed }

Call(c) ==
    mcp_router(c.server_name, c.action, c.tool_name, c.tool_arguments,
               c.tool_call_id, c.timeout)

\* The hosting server loop runs one call; its handler has no await on the
\* paths that touch the engine's state, so it is one step.
route ==
    /\ pc \in {"start_engine", "start_engine_http"}
    /\ call = NoCall
    /\ \E c \in Calls : Call(c)

\* The call's result goes back to the caller.
call_returns ==
    /\ call # NoCall
    /\ call' = NoCall
    /\ reply' = NoReply
    /\ UNCHANGED <<engine, table>>

Next ==
    \/ start_all_mcp_servers
    \/ start_engine
    \/ run_async_returns
    \/ route
    \/ call_returns
    \/ \E id \in TaskIds : background_tool_execution(id)
    \/ \E id \in TaskIds : timeout_expires(id)
    \/ aexit_cancel
    \/ aexit_close

Spec == Init /\ [][Next]_vars

\* The event loop runs a task that is ready: one that was just created, or
\* one that a timeout or a cancel request has woken.  A task that awaits
\* the backend is ready only when the backend answers, which it may never do.
ready(id) ==
    /\ id \in DOMAIN tasks
    /\ \/ tasks[id].st = "created"
       \/ tasks[id].expired
       \/ tasks[id].cancels > 0
    /\ background_tool_execution(id)

\* The calls of a run in which at most MaxLiveTasks invocations are spawned.
live_route ==
    /\ route
    /\ uuid' <= MaxLiveTasks

LiveNext ==
    \/ start_all_mcp_servers
    \/ start_engine
    \/ run_async_returns
    \/ live_route
    \/ call_returns
    \/ \E id \in TaskIds : background_tool_execution(id)
    \/ \E id \in TaskIds : timeout_expires(id)
    \/ aexit_cancel
    \/ aexit_close

\* The scheduling of the event loop: a call that runs returns, a timer whose
\* deadline is set fires, a ready task is run, however many calls arrive
\* in between.
LiveSpec ==
    /\ Init
    /\ [][LiveNext]_vars
    /\ WF_vars(call_returns)
    /\ \A id \in 1..MaxLiveTasks : SF_vars(timeout_expires(id))
    /\ \A id \in 1..MaxLiveTasks : SF_vars(ready(id))

---------------------------------------------------------------------------
(* Properties *)

\* The step is an mcp_router call, or a resumption of the task of id.
RouteStep ==
    /\ call = NoCall
    /\ call' # NoCall
    /\ call'.action \in ActionInputs

UnitStep(id) ==
    /\ call = NoCall
    /\ call' # NoCall
    /\ call'.action = "background_tool_execution"
    /\ call'.tool_call_id = id

Terminal(result) == result.status \in {COMPLETED, FAILED, TIMEOUT}

\* Every record but that of id is as it was.
OthersKept(id) ==
    \A k \in TaskIds \ {id} :
        /\ (k \in DOMAIN hmap_call_id_to_results) <=> (k \in DOMAIN hmap_call_id_to_results')
        /\ k \in DOMAIN hmap_call_id_to_results =>
                hmap_call_id_to_results'[k] = hmap_call_id_to_results[k]

\* The step is a poll of id that passes the checks made before the match.
PollStep(id) ==
    /\ RouteStep
    /\ call'.action = "poll_tool_result"
    /\ call'.tool_call_id = id
    /\ call'.tool_arguments # Malformed
    /\ call'.server_name \in DOMAIN hmap_mcp_server_to_session

\* C1: a poll of a PENDING record returns the in-progress notice and keeps
\* the record; the first poll that finds the record terminal removes it and
\* returns the stored results (COMPLETED) or the status+error block (FAILED,
\* TIMEOUT); a poll of an id that is not in the table raises UnknownTaskId,
\* and an id that was consumed never comes back into the table.
C1_ReadOnceThenDelete ==
    [][\A id \in TaskIdInputs :
        /\ PollStep(id) =>
            IF id \notin DOMAIN hmap_call_id_to_results
            THEN /\ reply'.raised = "UnknownTaskId"
                 /\ hmap_call_id_to_results' = hmap_call_id_to_results
            ELSE IF hmap_call_id_to_results[id].status = PENDING
            THEN /\ reply'.raised = None
                 /\ reply'.ret = <<[type |-> "text", text |->
                        "Status: BackgroundToolCallStatus.PENDING. The tool execution is still in progress. Please check back later."]>>
                 /\ hmap_call_id_to_results' = hmap_call_id_to_results
            ELSE /\ reply'.raised = None
                 /\ id \notin DOMAIN hmap_call_id_to_results'
                 /\ OthersKept(id)
                 /\ reply'.ret =
                        IF hmap_call_id_to_results[id].status = COMPLETED
                        THEN hmap_call_id_to_results[id].results[1]
                        ELSE <<[type |-> "text", text |->
                                "Status: BackgroundToolCallStatus."
                                \o hmap_call_id_to_results[id].status
                                \o ". Error Message: "
                                \o hmap_call_id_to_results[id].error_message[1]]>>
        /\ (id \in 1..uuid /\ id \notin DOMAIN hmap_call_id_to_results)
                => id \notin DOMAIN hmap_call_id_to_results'
      ]_vars

\* A poll of an id that spawn returned and an earlier poll consumed.
C1_Witness ==
    /\ call # NoCall
    /\ call.action = "poll_tool_result"
    /\ call.tool_call_id \in 1..uuid
    /\ reply.raised = "UnknownTaskId"

\* The record of id goes from PENDING to a terminal status in this step.
Wrote(id) ==
    /\ id \in DOMAIN hmap_call_id_to_results
    /\ hmap_call_id_to_results[id].status = PENDING
    /\ id \in DOMAIN hmap_call_id_to_results'
    /\ Terminal(hmap_call_id_to_results'[id])

\* The record of id is written in this step.
Changed(id) ==
    /\ id \in DOMAIN hmap_call_id_to_results'
    /\ \/ id \notin DOMAIN hmap_call_id_to_results
       \/ hmap_call_id_to_results'[id] # hmap_call_id_to_results[id]

\* The task of id ends in this step.
Finishes(id) ==
    /\ id \in DOMAIN tasks
    /\ ~done(id)
    /\ tasks'[id].st \in {"done", "cancelled"}

\* A record of a launched unit is written only by that unit, once, as it
\* ends, and is removed only by a poll that finds it terminal.
OneWriter(id) ==
    /\ (Changed(id) /\ id \in DOMAIN tasks) => (UnitStep(id) /\ Finishes(id) /\ Wrote(id))
    /\ (id \in DOMAIN hmap_call_id_to_results /\ id \notin DOMAIN hmap_call_id_to_results')
            => (Terminal(hmap_call_id_to_results[id]) /\ PollStep(id))

\* C2 as claimed: every unit that ends has written exactly one terminal
\* status to its own record (never zero writes, never two), and a terminal
\* record changes only by being deleted by a poll.
C2_ExactlyOneTerminalWrite ==
    [][\A id \in TaskIds : (Finishes(id) => Wrote(id)) /\ OneWriter(id)]_vars

\* C2: every unit writes at most one terminal status, to its own record: a
\* unit that ends without being cancelled by the engine's shutdown writes
\* exactly one as it ends, a unit that the shutdown cancelled writes none
\* and leaves its record as it was; a terminal record changes only by being
\* deleted by a poll.
C2_AtMostOneTerminalWrite ==
    [][\A id \in TaskIds :
        /\ Finishes(id) =>
            IF tasks'[id].st = "done"
            THEN Wrote(id)
            ELSE /\ tasks[id].cancels > 0
                 /\ hmap_call_id_to_results' = hmap_call_id_to_results
        /\ OneWriter(id)
      ]_vars

\* Two units were launched: the first has ended with its terminal write, the
\* second has just ended cancelled by the shutdown, its record still PENDING.
C2_Witness ==
    /\ call # NoCall
    /\ call.action = "background_tool_execution"
    /\ call.tool_call_id = 2
    /\ reply.raised = "CancelledError"
    /\ tasks[2].st = "cancelled"
    /\ hmap_call_id_to_results[2].status = PENDING
    /\ tasks[1].st = "done"
    /\ 1 \in DOMAIN hmap_call_id_to_results
    /\ Terminal(hmap_call_id_to_results[1])

\* The TIMEOUT record of a deadline of timeout seconds.
TimeoutRecord(timeout) ==
    [status |-> TIMEOUT,
     error_message |-> <<"Tool execution exceeded timeout of " \o ToString(timeout)
                          \o " seconds.">>,
     results |-> <<>>]

\* C3 as claimed: a unit whose deadline passed while it was running ends
\* with its record TIMEOUT, the message naming the configured duration.
C3_DeadlineAlwaysTimeout ==
    [][\A id \in TaskIds :
        (UnitStep(id) /\ tasks[id].expired) =>
            hmap_call_id_to_results'[id] = TimeoutRecord(tasks[id].timeout)
      ]_vars

\* C3: a unit whose deadline passed while it was running never ends
\* COMPLETED or FAILED: its record becomes TIMEOUT, the message naming the
\* configured duration, unless the engine's shutdown has asked the unit to
\* cancel before the unit handled the deadline; then the unit ends cancelled
\* and its record stays PENDING.
C3_DeadlineEndsInTimeout ==
    [][\A id \in TaskIds :
        (UnitStep(id) /\ tasks[id].expired) =>
            IF tasks[id].cancels = 0
            THEN /\ tasks'[id].st = "done"
                 /\ hmap_call_id_to_results'[id] = TimeoutRecord(tasks[id].timeout)
            ELSE /\ tasks'[id].st = "cancelled"
                 /\ hmap_call_id_to_results' = hmap_call_id_to_results
                 /\ hmap_call_id_to_results[id].status = PENDING
      ]_vars

\* A unit has just handled its deadline: asyncio.timeout raised, no answer
\* of the backend was consumed, and the record is TIMEOUT.
C3_Witness ==
    /\ call # NoCall
    /\ call.action = "background_tool_execution"
    /\ reply.raised = "TimeoutError"
    /\ reply.outcome = NoOutcome
    /\ call.timeout # DefaultTimeout
    /\ hmap_call_id_to_results[call.tool_call_id] = TimeoutRecord(call.timeout)

\* C4 as claimed: when session.call_tool raises or returns an error before
\* the deadline, the unit's record becomes FAILED with the error's message;
\* a spawn or poll call never raises the backend's error.
C4_ErrorsBecomeFailed ==
    [][/\ \A id \in TaskIds :
            (/\ UnitStep(id)
             /\ reply'.outcome # NoOutcome
             /\ \/ reply'.outcome.kind = "raise"
                \/ (reply'.outcome.kind = "return" /\ reply'.outcome.isError)) =>
                /\ hmap_call_id_to_results'[id].status = FAILED
                /\ reply'.outcome.kind = "raise" =>
                        hmap_call_id_to_results'[id].error_message = <<reply'.outcome.msg>>
       /\ (RouteStep /\ call'.action \in {"spawn_tool_in_background", "poll_tool_result"})
            => reply'.raised \in ValidationErrors \cup {None}
      ]_vars

\* The blocks of a result with only their type and text.
Stripped(content) ==
    [k \in 1..Len(content) |-> [type |-> content[k].type, text |-> content[k].text]]

C6_NoUnitOutlivesItsSession ==
    /\ \A id \in DOMAIN tasks : ~done(id) => stack_handler = "open"
    /\ pc \in {"gather", "exited"} =>
            \A id \in DOMAIN tasks : ~done(id) => tasks[id].cancels > 0
    /\ stack_handler = "closed" => (pc = "exited" /\ \A id \in DOMAIN tasks : done(id))

\* The engine has shut down with two units launched, one of them cancelled
\* by the shutdown.
C6_Witness ==
    /\ pc = "exited"
    /\ stack_handler = "closed"
    /\ uuid = 2
    /\ \E id \in DOMAIN tasks : tasks[id].st = "cancelled"

\* C7: a spawn returns an id that no earlier spawn returned and adds one
\* record and one task under it; a spawn, a unit's step and a poll leave the
\* records and the tasks of every other id as they were.
C7_IndependentTaskIds ==
    [][/\ (RouteStep /\ call'.action = "spawn_tool_in_background" /\ reply'.raised = None) =>
            \E new \in TaskIds :
                /\ new \notin DOMAIN tasks
                /\ new \notin DOMAIN hmap_call_id_to_results
                /\ DOMAIN tasks' = (DOMAIN tasks) \cup {new}
                /\ DOMAIN hmap_call_id_to_results' = (DOMAIN hmap_call_id_to_results) \cup {new}
                /\ hmap_call_id_to_results'[new].status = PENDING
                /\ reply'.ret[1] = [type |-> "text", text |-> "tool_call_id: " \o ToString(new)]
                /\ background_tasks' = Append(background_tasks, new)
                /\ OthersKept(new)
                /\ \A k \in DOMAIN tasks : tasks'[k] = tasks[k]
       /\ \A id \in TaskIds :
            UnitStep(id) =>
                /\ OthersKept(id)
                /\ \A k \in (DOMAIN tasks) \ {id} : tasks'[k] = tasks[k]
       /\ \A id \in TaskIdInputs :
            PollStep(id) => (OthersKept(id) /\ tasks' = tasks)
      ]_vars

\* Two spawns returned the ids 1 and 2; a poll has just consumed the record
\* of 1 and the record of 2 is still PENDING.
C7_Witness ==
    /\ uuid = 2
    /\ call # NoCall
    /\ call.action = "poll_tool_result"
    /\ call.tool_call_id = 1
    /\ reply.raised = None
    /\ 1 \notin DOMAIN hmap_call_id_to_results
    /\ 2 \in DOMAIN hmap_call_id_to_results
    /\ hmap_call_id_to_results[2].status = PENDING

\* The registry, the task table, the tracked tasks and the tasks themselves.
shared == <<hmap_mcp_server_to_session, hmap_call_id_to_results, background_tasks,
            tasks, uuid>>

\* C8: a call whose action is none of the six raises UnsupportedAction
\* whatever its other parameters are, with no session looked up or
\* contacted and the shared state as it was.
C8_UnsupportedActionFirst ==
    [][(RouteStep /\ call'.action \notin Actions) =>
            /\ reply'.raised = "UnsupportedAction"
            /\ ~reply'.lookup
            /\ ~reply'.contacted
            /\ UNCHANGED shared
      ]_vars

\* A call with an unknown action, an unknown backend, malformed arguments
\* and an unknown task id, made while a record is in the table.
C8_Witness ==
    /\ call # NoCall
    /\ call.action = "bogus"
    /\ call.server_name = "ghost"
    /\ call.tool_arguments = Malformed
    /\ call.tool_call_id = 0
    /\ hmap_call_id_to_results # <<>>
    /\ reply.raised = "UnsupportedAction"

\* C9 as claimed: a call with a recognized action and a server_name that is
\* no key of the registry raises UnknownBackend, contacts no session,
\* launches no unit and leaves every record.
C9_UnknownBackendAlways ==
    [][(/\ RouteStep
        /\ call'.action \in Actions
        /\ call'.server_name \notin DOMAIN hmap_mcp_server_to_session) =>
            /\ reply'.raised = "UnknownBackend"
            /\ ~reply'.contacted
            /\ UNCHANGED shared
      ]_vars

\* C9: a call with a recognized action and a server_name that is no key of
\* the registry raises UnknownBackend when its tool_arguments are absent or
\* well-formed JSON, and InvalidArguments when they are malformed (they are
\* parsed before the registry is indexed); either way it contacts no
\* session, launches no unit and leaves every record.
C9_UnknownBackendAfterParse ==
    [][(/\ RouteStep
        /\ call'.action \in Actions
        /\ call'.server_name \notin DOMAIN hmap_mcp_server_to_session) =>
            /\ reply'.raised = IF call'.tool_arguments = Malformed
                               THEN "InvalidArguments" ELSE "UnknownBackend"
            /\ ~reply'.contacted
            /\ UNCHANGED shared
      ]_vars

\* A poll of a record that is in the table, through an unknown backend.
C9_Witness ==
    /\ call # NoCall
    /\ call.action = "poll_tool_result"
    /\ call.server_name = "ghost"
    /\ call.tool_call_id \in DOMAIN hmap_call_id_to_results
    /\ Terminal(hmap_call_id_to_results[call.tool_call_id])
    /\ reply.raised = "UnknownBackend"

\* C10: a call that raises a validation error leaves the registry, the task
\* table, the tracked tasks and the tasks as they were: nothing is launched.
C10_ValidationErrorsChangeNothing ==
    [][(RouteStep /\ reply'.raised \in ValidationErrors) => UNCHANGED shared]_vars

\* A spawn with malformed arguments has just been refused while another
\* invocation is in the table.
C10_Witness ==
    /\ call # NoCall
    /\ call.action = "spawn_tool_in_background"
    /\ call.server_name \in DOMAIN hmap_mcp_server_to_session
    /\ reply.raised = "InvalidArguments"
    /\ uuid = 1
    /\ hmap_call_id_to_results # <<>>

\* The step is one iteration of the loop of start_all_mcp_servers.
StartupStep ==
    /\ call = NoCall
    /\ call' # NoCall
    /\ call'.action = "start_mcp_server"

\* The names the descriptors before index k have.
Attempted(k) == {mcpServers[j] : j \in 1..(k - 1)}

\* The names the summary has, in order.
SummaryNames == [k \in 1..Len(mcp_info) |-> mcp_info[k].name]

\* start_all_mcp_servers has returned its summary.
StartAllReturned == i > Len(mcpServers)

\* C11: an iteration of startAll registers the backend exactly when its
\* startup returned a session (a backend that timed out or raised is no key
\* of the registry and gets no summary entry), and changes no other entry;
\* when startAll returns, the summary names exactly the registered
\* backends, in descriptor order, and is the "none started" marker exactly
\* when the registry is empty.
C11_RegistryIsStartedBackends ==
    [][/\ StartupStep =>
            LET name == mcpServers[i] IN
            /\ call'.server_name = name
            /\ name \notin DOMAIN hmap_mcp_server_to_session
            /\ (name \in DOMAIN hmap_mcp_server_to_session') <=> (reply'.started = "session")
            /\ DOMAIN hmap_mcp_server_to_session' \subseteq Attempted(i + 1)
            /\ \A n \in DOMAIN hmap_mcp_server_to_session :
                    /\ n \in DOMAIN hmap_mcp_server_to_session'
                    /\ hmap_mcp_server_to_session'[n] = hmap_mcp_server_to_session[n]
            /\ reply'.started # "session" => mcp_info' = mcp_info
       /\ StartAllReturned' =>
            /\ {SummaryNames[k] : k \in 1..Len(SummaryNames)}' = DOMAIN hmap_mcp_server_to_session'
            /\ \A j, k \in 1..Len(mcp_info') : j # k => mcp_info'[j].name # mcp_info'[k].name
            /\ (description' = "No MCP servers started successfully.")
                    <=> (DOMAIN hmap_mcp_server_to_session' = {})
      ]_vars

\* startAll has returned with the first backend timed out at startup and
\* the second registered and named in the summary.
C11_Witness ==
    /\ StartAllReturned
    /\ call # NoCall
    /\ call.action = "start_mcp_server"
    /\ reply.started = "session"
    /\ DOMAIN hmap_mcp_server_to_session = {"beta"}
    /\ SummaryNames = <<"beta">>

\* C12 as claimed: whatever a backend produces while startAll brings it up
\* and builds its summary line, the iteration ends without raising and
\* startAll goes on to the next descriptor.
C12_StartupIsBestEffort ==
    [][StartupStep =>
            /\ reply'.raised = None
            /\ pc' = "start_all_mcp_servers"
            /\ i' = i + 1
      ]_vars

\* The step is a list, describe or schema call that reaches its query.
QueryStep(action) ==
    /\ RouteStep
    /\ call'.action = action
    /\ call'.tool_arguments # Malformed
    /\ call'.server_name \in DOMAIN hmap_mcp_server_to_session

\* The tools of name in a response.
Named(tools, name) == {k \in 1..Len(tools) : tools[k].name = name}

\* C13: every list, describe and schema call of a registered backend makes
\* its own query of the session, and what it returns is taken from the
\* answer of that query alone: the names of that answer for list, the
\* description / input schema that answer has for the name for describe /
\* schema, and UnknownCapability for a name that answer does not have,
\* whatever an earlier query answered.
C13_NoCapabilityCache ==
    [][\A action \in {"list_tools", "get_description", "get_tool_schema"} :
        QueryStep(action) =>
            /\ reply'.contacted
            /\ reply'.outcome = NoOutcome => reply'.raised = "BackendError"
            /\ reply'.outcome # NoOutcome =>
                LET tools == reply'.outcome.tools
                    name == call'.tool_name
                IN  /\ reply'.outcome.kind = "tools"
                    /\ action = "list_tools" =>
                        /\ reply'.raised = None
                        /\ Len(reply'.ret) = Len(tools) + 2
                        /\ \A k \in 1..Len(tools) :
                            reply'.ret[k] = [type |-> "text",
                                             text |-> "tool_name: " \o tools[k].name]
                    /\ action # "list_tools" =>
                        IF Named(tools, name) = {}
                        THEN reply'.raised = "UnknownCapability"
                        ELSE /\ reply'.raised = None
                             /\ \E k \in Named(tools, name) :
                                reply'.ret = <<[type |-> "text", text |->
                                    IF action = "get_description"
                                    THEN tools[k].description
                                    ELSE "name: " \o name
                                         \o "\ndescription: if you feel confused, use get_description action to get the tool description"
                                         \o "\ninput_schema: " \o tools[k].inputSchema]>>
      ]_vars

\* A describe has just returned the description of a tool that the backend
\* did not have at startup.
C13_Witness ==
    /\ call # NoCall
    /\ call.action = "get_description"
    /\ call.tool_name = "nosuch"
    /\ ~HasTool(ListToolsResult(call.server_name), "nosuch")
    /\ reply.raised = None
    /\ reply.ret = <<[type |-> "text", text |-> "nosuch of " \o call.server_name]>>

\* The record of id is PENDING.
Pending(id) ==
    /\ id \in DOMAIN hmap_call_id_to_results
    /\ hmap_call_id_to_results[id].status = PENDING

\* The hosting loop has ended and __aexit__ has begun.
ShutDown == pc \in {"aexit", "gather", "exited"}

\* C14: under the event loop's scheduling, a record that is PENDING becomes
\* terminal, unless the engine is shut down first, whether or not the
\* backend ever answers.
C14_BoundedLifetime ==
    \A id \in 1..MaxLiveTasks :
        Pending(id) ~> (ShutDown \/ (id \in DOMAIN hmap_call_id_to_results
                                        /\ Terminal(hmap_call_id_to_results[id])))

\* A unit whose backend had not answered has just been ended by its
\* deadline while the engine is running.
C14_Witness ==
    /\ pc = "start_engine"
    /\ call # NoCall
    /\ call.action = "background_tool_execution"
    /\ reply.raised = "TimeoutError"
    /\ reply.outcome = NoOutcome
    /\ hmap_call_id_to_results[call.tool_call_id].status = TIMEOUT

\* The id was returned by a spawn and its record was taken by a poll.
Taken(id) ==
    /\ id \in 1..uuid
    /\ id \notin DOMAIN hmap_call_id_to_results

\* The poll has answered with the outcome of the invocation, not with the
\* in-progress notice and not with an error of the call.
TookResult(id) ==
    /\ PollStep(id)
    /\ reply'.raised = None
    /\ ~(id \in DOMAIN hmap_call_id_to_results /\ hmap_call_id_to_results[id].status = PENDING)

\* C15: polls of one TaskId run one after the other, each from its checks
\* to its return (the handler has no suspension point), so of any number
\* of polls of a terminal record exactly one takes it: the poll that
\* answers with the outcome is the one step that removes the record, a
\* record is removed by no other step and at most once, and every poll
\* after that raises UnknownTaskId and removes nothing.
C15_OnePollTakesTheResult ==
    [][\A id \in TaskIds :
        /\ TookResult(id) <=> (~Taken(id) /\ Taken(id)')
        /\ Taken(id) => Taken(id)'
        /\ (PollStep(id) /\ Taken(id)) =>
                /\ reply'.raised = "UnknownTaskId"
                /\ hmap_call_id_to_results' = hmap_call_id_to_results
      ]_vars

\* The second of two polls of a completed invocation: the first took the
\* blocks, this one raised UnknownTaskId.
C15_Witness ==
    /\ call # NoCall
    /\ call.action = "poll_tool_result"
    /\ call.server_name \in DOMAIN hmap_mcp_server_to_session
    /\ call.tool_arguments # Malformed
    /\ call.tool_call_id \in DOMAIN tasks
    /\ tasks[call.tool_call_id].st = "done"
    /\ Taken(call.tool_call_id)
    /\ reply.raised = "UnknownTaskId"

\* The step is a spawn that passes the checks made before the match.
SpawnStep ==
    /\ RouteStep
    /\ call'.action = "spawn_tool_in_background"
    /\ reply'.raised = None

\* The record of id is PENDING after the step and was not before.
BecomesPending(id) ==
    /\ id \in DOMAIN hmap_call_id_to_results'
    /\ hmap_call_id_to_results'[id].status = PENDING
    /\ ~Pending(id)

\* C16: a spawn returns with the session not contacted and the unit not yet
\* run, the new id in the table as PENDING and the unit in the tracked
\* list; a record becomes PENDING only by the spawn that creates its key,
\* never over an existing record; a record is terminal only when its own
\* unit has run to its end and written it, so a poll reports no terminal
\* status that the unit did not write.
C16_PendingInsertPrecedesTerminalWrite ==
    [][/\ SpawnStep =>
            \E new \in TaskIds :
                /\ BecomesPending(new)
                /\ hmap_call_id_to_results'[new] =
                        [status |-> PENDING, error_message |-> <<>>, results |-> <<>>]
                /\ \E k \in 1..Len(background_tasks') : background_tasks'[k] = new
                /\ tasks'[new].st = "created"
                /\ ~reply'.contacted
                /\ reply'.outcome = NoOutcome
       /\ \A id \in TaskIds :
            /\ BecomesPending(id) => (SpawnStep /\ id \notin DOMAIN hmap_call_id_to_results)
            /\ (id \in DOMAIN hmap_call_id_to_results' /\ Terminal(hmap_call_id_to_results'[id]))
                    => tasks'[id].st = "done"
            /\ TookResult(id) => tasks[id].st = "done"
      ]_vars

\* A spawn has just returned while the unit of an earlier spawn has already
\* written its terminal status: the new record is PENDING, its unit has
\* not run, and the earlier record is as its unit wrote it.
C16_Witness ==
    /\ call # NoCall
    /\ call.action = "spawn_tool_in_background"
    /\ reply.raised = None
    /\ uuid = 2
    /\ tasks[2].st = "created"
    /\ Pending(2)
    /\ tasks[1].st = "done"
    /\ 1 \in DOMAIN hmap_call_id_to_results
    /\ Terminal(hmap_call_id_to_results[1])

\* C17: once the engine serves calls, a key enters the task table only by
\* a spawn, the record of a key changes only by a step of the unit of that
\* key, a key leaves the table only by a poll of that key; list_tools,
\* get_description, get_tool_schema and execute_tool leave the table as it
\* was; and no call and no other step adds, removes or replaces a registry
\* entry.
C17_MutationDiscipline ==
    [][/\ \A id \in TaskIds :
            /\ (id \notin DOMAIN hmap_call_id_to_results
                    /\ id \in DOMAIN hmap_call_id_to_results') => SpawnStep
            /\ (id \in DOMAIN hmap_call_id_to_results
                    /\ id \in DOMAIN hmap_call_id_to_results'
                    /\ hmap_call_id_to_results'[id] # hmap_call_id_to_results[id])
                        => UnitStep(id)
            /\ (id \in DOMAIN hmap_call_id_to_results
                    /\ id \notin DOMAIN hmap_call_id_to_results') => PollStep(id)
       /\ DOMAIN hmap_call_id_to_results' \subseteq TaskIds
       /\ (RouteStep /\ call'.action \in {"list_tools", "get_description",
                                          "get_tool_schema", "execute_tool"})
            => (hmap_call_id_to_results' = hmap_call_id_to_results
                    /\ background_tasks' = background_tasks)
       /\ (RouteStep \/ pc \notin {"start_all_mcp_servers"})
            => hmap_mcp_server_to_session' = hmap_mcp_server_to_session
      ]_vars

\* An execute_tool has just returned its blocks while the table holds the
\* records of two invocations.
C17_Witness ==
    /\ call # NoCall
    /\ call.action = "execute_tool"
    /\ reply.raised = None
    /\ reply.contacted
    /\ DOMAIN hmap_call_id_to_results = {1, 2}
    /\ Terminal(hmap_call_id_to_results[1])

\* C18: a unit that the shutdown cancels while it awaits the backend ends
\* cancelled and writes nothing; the record of a cancelled unit is in the
\* table with status PENDING, in every state up to and after the end of
\* the shutdown, never FAILED and never TIMEOUT.
C18_CancelledUnitStaysPending ==
    [][\A id \in TaskIds :
        /\ (UnitStep(id) /\ tasks[id].st = "awaiting" /\ tasks[id].cancels > 0) =>
                /\ tasks'[id].st = "cancelled"
                /\ reply'.raised = "CancelledError"
                /\ hmap_call_id_to_results' = hmap_call_id_to_results
        /\ (id \in DOMAIN tasks' /\ tasks'[id].st = "cancelled") =>
                /\ pc' \in {"gather", "exited"}
                /\ id \in DOMAIN hmap_call_id_to_results'
                /\ hmap_call_id_to_results'[id] =
                        [status |-> PENDING, error_message |-> <<>>, results |-> <<>>]
      ]_vars

\* The shutdown is over except for the return of the last unit step: a unit
\* was cancelled while it awaited the backend and its record is PENDING.
C18_Witness ==
    /\ pc = "gather"
    /\ call # NoCall
    /\ call.action = "background_tool_execution"
    /\ reply.outcome = Cancelled
    /\ \A id \in DOMAIN tasks : done(id)
    /\ Pending(call.tool_call_id)

\* What a poll of id answers and what it leaves in the table, as
\* functions of the table alone.
PollAnswer(id) ==
    IF id \notin DOMAIN hmap_call_id_to_results
    THEN [raised |-> "UnknownTaskId", ret |-> <<>>]
    ELSE [raised |-> None,
          ret |-> CASE hmap_call_id_to_results[id].status = PENDING ->
                        <<[type |-> "text", text |->
                            "Status: BackgroundToolCallStatus.PENDING. The tool execution is still in progress. Please check back later."]>>
                    [] hmap_call_id_to_results[id].status = COMPLETED ->
                        hmap_call_id_to_results[id].results[1]
                    [] OTHER ->
                        <<[type |-> "text", text |->
                            "Status: BackgroundToolCallStatus."
                            \o hmap_call_id_to_results[id].status \o ". Error Message: "
                            \o hmap_call_id_to_results[id].error_message[1]]>>]

PollLeaves(id) ==
    IF id \in DOMAIN hmap_call_id_to_results /\ hmap_call_id_to_results[id].status # PENDING
    THEN [k \in (DOMAIN hmap_call_id_to_results) \ {id} |-> hmap_call_id_to_results[k]]
    ELSE hmap_call_id_to_results

\* C19: what a poll of a TaskId answers and does to the table is determined
\* by the table and the TaskId alone: it is the same through every
\* registered server_name, the backend the invocation was spawned on or
\* any other, and the session that was looked up is not contacted.
C19_TableNotScopedByBackend ==
    [][\A id \in TaskIdInputs :
        PollStep(id) =>
            /\ reply'.raised = PollAnswer(id).raised
            /\ reply'.ret = PollAnswer(id).ret
            /\ hmap_call_id_to_results' = PollLeaves(id)
            /\ reply'.lookup
            /\ ~reply'.contacted
      ]_vars

\* A poll through one backend has just returned the in-progress notice of
\* an invocation that was spawned on, and is running on, the other backend.
C19_Witness ==
    /\ call # NoCall
    /\ call.action = "poll_tool_result"
    /\ call.tool_call_id \in DOMAIN tasks
    /\ tasks[call.tool_call_id].st = "awaiting"
    /\ tasks[call.tool_call_id].session \in DOMAIN hmap_mcp_server_to_session
    /\ call.server_name \in DOMAIN hmap_mcp_server_to_session
    /\ tasks[call.tool_call_id].session # call.server_name
    /\ reply.raised = None
    /\ Pending(call.tool_call_id)

\* The hosting server loop is running, in the run_async of line 63 or 64.
Serving == pc \in {"start_engine", "start_engine_http"}

\* The step is one of start_engine: its call, or its move from one
\* run_async to the next.
EngineStep ==
    /\ call = NoCall
    /\ call' # NoCall
    /\ call'.action = "start_engine"

\* C20 as claimed: start_engine called with "http" or "stdio" starts the
\* server loop, and when that loop returns start_engine returns without
\* starting another; called with any other transport it raises before it
\* starts a loop.
C20_OneServerLoop ==
    [][/\ (EngineStep /\ ~Serving) =>
            IF call'.transport \in {"http", "stdio"}
            THEN reply'.raised = None /\ Serving'
            ELSE reply'.raised = "ValueError" /\ ~Serving'
       /\ (Serving /\ pc' # pc) => ~Serving'
      ]_vars

====
